---- MODULE Spec2Model ----
(***************************************************************************)
(* Model of the t-rex vector tile builder (t-rex-core/src/mvt/tile.rs) and *)
(* of the PostGIS row adapter (t-rex-core/src/datasource/postgis_fields.rs).*)
(*                                                                         *)
(* Four specifications share the module:                                   *)
(*   Spec      - one Tile_Layer built by a sequence of Tile::add_feature   *)
(*               calls on arbitrary implementors of the Feature trait;     *)
(*   SpecProj  - screen::Point::from_geom applied to bounded inputs;       *)
(*   SpecRow   - a FeatureRow (fid, attributes, geometry) read from one    *)
(*               database row and added to a fresh layer;                  *)
(*   SpecWrite - Tile::write_to / write_gz_to / binary_tile on a writer    *)
(*               whose steps may fail.                                     *)
(*                                                                         *)
(* Floating point: coordinates are small integers, for which the f64       *)
(* expression (p - min) * tile_size / span is the correctly rounded exact  *)
(* quotient and its truncation equals the truncation of the exact value.   *)
(***************************************************************************)
EXTENDS Integers, Sequences, FiniteSets, TLC

VARIABLES
    extent,       \* Tile.extent
    reverse_y,    \* Tile.reverse_y
    mvt_layer,    \* the vector_tile::Tile_Layer under construction
    panicked,     \* TRUE once a call has unwound with panic!
    calls,        \* history: the Feature passed to each add_feature call
    proj,         \* SpecProj: input and result of screen::Point::from_geom
    rowcall,      \* SpecRow: layer configuration, row and derived Feature
    wr            \* SpecWrite: the writer call and its outcome

vars == <<extent, reverse_y, mvt_layer, panicked, calls, proj, rowcall, wr>>

(***************************************************************************)
(* Bounds of the model.                                                    *)
(***************************************************************************)
MaxCalls == 2      \* add_feature calls on the layer
MaxAttrs == 2      \* attributes over all calls on the layer

None == <<>>       \* Option::None

Some(v) == <<v>>

Ok(v) == [ok |-> TRUE, val |-> v]

Err(e) == [ok |-> FALSE, val |-> e]

Last(s) == s[Len(s)]

Max(a, b) == IF a >= b THEN a ELSE b

Abs(a) == IF a >= 0 THEN a ELSE -a

(***************************************************************************)
(* core::geom - world geometries.  A point is [x, y]; the variants hold    *)
(* nested sequences of points.                                             *)
(***************************************************************************)
Pt(x, y) == [x |-> x, y |-> y]

Point(p) == [kind |-> "Point", parts |-> p]

LineString(ps) == [kind |-> "LineString", parts |-> ps]

Polygon(rings) == [kind |-> "Polygon", parts |-> rings]

MultiPoint(ps) == [kind |-> "MultiPoint", parts |-> ps]

MultiLineString(ls) == [kind |-> "MultiLineString", parts |-> ls]

MultiPolygon(polys) == [kind |-> "MultiPolygon", parts |-> polys]

GeometryCollection(gs) == [kind |-> "GeometryCollection", parts |-> gs]

\* GeometryType::is_empty: a Point is never empty, every other variant is
\* empty when it has no top-level part.
is_empty(geom) == IF geom.kind = "Point" THEN FALSE ELSE Len(geom.parts) = 0

\* GeometryType::mvt_field_type
mvt_field_type(geom) ==
    CASE geom.kind = "Point" -> "POINT"
      [] geom.kind = "LineString" -> "LINESTRING"
      [] geom.kind = "Polygon" -> "POLYGON"
      [] geom.kind = "MultiPoint" -> "POINT"
      [] geom.kind = "MultiLineString" -> "LINESTRING"
      [] geom.kind = "MultiPolygon" -> "POLYGON"
      [] geom.kind = "GeometryCollection" -> "UNKNOWN"

(***************************************************************************)
(* Screen projector: impl ScreenGeom<...>::from_geom.                      *)
(***************************************************************************)
I32Max == 2147483647

I32Min == -I32Max - 1

\* `v as i32` for the f64 value n / d (d > 0): truncation toward zero,
\* saturating at the i32 bounds.
as_i32(n, d) ==
    LET q == IF n >= 0 THEN n \div d ELSE -((-n) \div d)
    IN  IF q > I32Max THEN I32Max ELSE IF q < I32Min THEN I32Min ELSE q

\* i32::saturating_sub
saturating_sub(a, b) ==
    LET d == a - b
    IN  IF d > I32Max THEN I32Max ELSE IF d < I32Min THEN I32Min ELSE d

\* as_i32 rounding to the nearest integer instead of truncating
point_from_geom_round(ext, rev, tile_size, point) ==
    LET rnd(n, d) == IF n >= 0 THEN (2 * n + d) \div (2 * d)
                     ELSE -((2 * (-n) + d) \div (2 * d))
        sx == rnd((point.x - ext.minx) * tile_size, ext.maxx - ext.minx)
        sy == rnd((point.y - ext.miny) * tile_size, ext.maxy - ext.miny)
    IN  [x |-> sx, y |-> IF rev THEN saturating_sub(tile_size, sy) ELSE sy]

\* reverse_y clamped at zero instead of at the i32 bounds
point_from_geom_clamp0(ext, rev, tile_size, point) ==
    LET sx == as_i32((point.x - ext.minx) * tile_size, ext.maxx - ext.minx)
        sy == as_i32((point.y - ext.miny) * tile_size, ext.maxy - ext.miny)
    IN  [x |-> sx, y |-> IF rev THEN Max(0, tile_size - sy) ELSE sy]

\* impl ScreenGeom<geom::Point> for screen::Point
point_from_geom(ext, rev, tile_size, point) ==
    LET x_span == ext.maxx - ext.minx
        y_span == ext.maxy - ext.miny
        sx == as_i32((point.x - ext.minx) * tile_size, x_span)
        sy == as_i32((point.y - ext.miny) * tile_size, y_span)
    IN  [x |-> sx, y |-> IF rev THEN saturating_sub(tile_size, sy) ELSE sy]

\* screen::MultiPoint / screen::LineString: every point, in order
points_from_geom(ext, rev, tile_size, ps) ==
    [i \in 1..Len(ps) |-> point_from_geom(ext, rev, tile_size, ps[i])]

\* screen::MultiLineString / screen::Polygon: every line or ring, in order
lines_from_geom(ext, rev, tile_size, ls) ==
    [i \in 1..Len(ls) |-> points_from_geom(ext, rev, tile_size, ls[i])]

\* screen::MultiPolygon: every polygon, in order
polygons_from_geom(ext, rev, tile_size, polys) ==
    [i \in 1..Len(polys) |-> lines_from_geom(ext, rev, tile_size, polys[i])]

(***************************************************************************)
(* Command encoder (mvt::geom_encoder): the MVT command-integer protocol.  *)
(***************************************************************************)
MoveTo == 1

LineTo == 2

ClosePath == 7

\* (id & 0x7) | (count << 3)
CommandInteger(id, count) == (id % 8) + 8 * count

\* (n << 1) ^ (n >> 31)
zigzag(n) == IF n >= 0 THEN 2 * n ELSE -2 * n - 1

origin == [x |-> 0, y |-> 0]

\* one (dx, dy) parameter pair per point, each a delta from the point before
RECURSIVE Deltas(_, _)
Deltas(ps, cur) ==
    IF ps = <<>> THEN <<>>
    ELSE <<zigzag(ps[1].x - cur.x), zigzag(ps[1].y - cur.y)>>
             \o Deltas(Tail(ps), ps[1])

\* Point / MultiPoint: one MoveTo with count = number of points
encode_points(ps) ==
    IF Len(ps) = 0 THEN <<>>
    ELSE <<CommandInteger(MoveTo, Len(ps))>> \o Deltas(ps, origin)

\* one line: MoveTo(1) first point, LineTo(n - 1) the rest; lines with fewer
\* than 2 points are dropped.  Result: the commands and the new cursor.
encode_line(ps, cur) ==
    IF Len(ps) < 2 THEN [seq |-> <<>>, cur |-> cur]
    ELSE [seq |-> <<CommandInteger(MoveTo, 1)>> \o Deltas(<<ps[1]>>, cur)
                    \o <<CommandInteger(LineTo, Len(ps) - 1)>>
                    \o Deltas(Tail(ps), ps[1]),
          cur |-> Last(ps)]

RECURSIVE encode_lines(_, _)
encode_lines(ls, cur) ==
    IF ls = <<>> THEN [seq |-> <<>>, cur |-> cur]
    ELSE LET first == encode_line(ls[1], cur)
             rest == encode_lines(Tail(ls), first.cur)
         IN  [seq |-> first.seq \o rest.seq, cur |-> rest.cur]

\* one ring: the implicit closing point is removed, rings with fewer than 3
\* points are dropped, ClosePath(1) ends the ring
encode_ring(ps, cur) ==
    LET open == IF Len(ps) > 1 /\ Last(ps) = ps[1]
                THEN SubSeq(ps, 1, Len(ps) - 1) ELSE ps
    IN  IF Len(open) < 3 THEN [seq |-> <<>>, cur |-> cur]
        ELSE [seq |-> encode_line(open, cur).seq
                        \o <<CommandInteger(ClosePath, 1)>>,
              cur |-> Last(open)]

RECURSIVE encode_rings(_, _)
encode_rings(rings, cur) ==
    IF rings = <<>> THEN [seq |-> <<>>, cur |-> cur]
    ELSE LET first == encode_ring(rings[1], cur)
             rest == encode_rings(Tail(rings), first.cur)
         IN  [seq |-> first.seq \o rest.seq, cur |-> rest.cur]

RECURSIVE encode_polygons(_, _)
encode_polygons(polys, cur) ==
    IF polys = <<>> THEN [seq |-> <<>>, cur |-> cur]
    ELSE LET first == encode_rings(polys[1], cur)
             rest == encode_polygons(Tail(polys), first.cur)
         IN  [seq |-> first.seq \o rest.seq, cur |-> rest.cur]

(***************************************************************************)
(* Tile builder: impl Tile.                                                *)
(***************************************************************************)
\* Tile::new_layer
new_layer(layer) ==
    [version |-> 2, name |-> layer.name, extent |-> layer.tile_size,
     keys |-> <<>>, values |-> <<>>, features |-> <<>>]

\* Tile::encode_geom: the command sequence, or the panic of the last arm
encode_geom(ext, rev, geom, tile_size) ==
    CASE geom.kind = "Point" ->
           [panic |-> FALSE,
            seq |-> encode_points(<<point_from_geom(ext, rev, tile_size, geom.parts)>>)]
      [] geom.kind = "MultiPoint" ->
           [panic |-> FALSE,
            seq |-> encode_points(points_from_geom(ext, rev, tile_size, geom.parts))]
      [] geom.kind = "LineString" ->
           [panic |-> FALSE,
            seq |-> encode_line(points_from_geom(ext, rev, tile_size, geom.parts), origin).seq]
      [] geom.kind = "MultiLineString" ->
           [panic |-> FALSE,
            seq |-> encode_lines(lines_from_geom(ext, rev, tile_size, geom.parts), origin).seq]
      [] geom.kind = "Polygon" ->
           [panic |-> FALSE,
            seq |-> encode_rings(lines_from_geom(ext, rev, tile_size, geom.parts), origin).seq]
      [] geom.kind = "MultiPolygon" ->
           [panic |-> FALSE,
            seq |-> encode_polygons(polygons_from_geom(ext, rev, tile_size, geom.parts), origin).seq]
      [] geom.kind = "GeometryCollection" -> [panic |-> TRUE, seq |-> <<>>]

\* a == b on vector_tile::Tile_Value (PartialEq over the optional fields):
\* IEEE equality on the float and double fields, so NaN equals nothing
tile_value_eq(a, b) ==
    /\ a.field = b.field
    /\ a.v = b.v
    /\ ~(a.field \in {"float_value", "double_value"} /\ a.v = "NaN")

\* Iterator::position over the keys: 0-based index of the first equal key
key_position(keys, key) ==
    LET hits == {i \in 1..Len(keys) : keys[i] = key}
    IN  IF hits = {} THEN None
        ELSE Some((CHOOSE i \in hits : \A j \in hits : i <= j) - 1)

\* Iterator::position over the values
value_position(values, mvt_value) ==
    LET hits == {i \in 1..Len(values) : tile_value_eq(values[i], mvt_value)}
    IN  IF hits = {} THEN None
        ELSE Some((CHOOSE i \in hits : \A j \in hits : i <= j) - 1)

\* add_feature_attribute that pushes the value index before the key index
add_feature_attribute_swapped(layer, mvt_feature, key, mvt_value) ==
    LET keyentry == key_position(layer.keys, key)
        keys1 == IF keyentry = None THEN Append(layer.keys, key) ELSE layer.keys
        keyidx == IF keyentry = None THEN Len(keys1) - 1 ELSE keyentry[1]
        valentry == value_position(layer.values, mvt_value)
        values1 == IF valentry = None THEN Append(layer.values, mvt_value)
                   ELSE layer.values
        validx == IF valentry = None THEN Len(values1) - 1 ELSE valentry[1]
    IN  [layer |-> [layer EXCEPT !.keys = keys1, !.values = values1],
         mvt_feature |-> [mvt_feature EXCEPT !.tags = @ \o <<validx, keyidx>>]]

\* Tile::add_feature_attribute
add_feature_attribute(layer, mvt_feature, key, mvt_value) ==
    LET keyentry == key_position(layer.keys, key)
        keys1 == IF keyentry = None THEN Append(layer.keys, key) ELSE layer.keys
        keyidx == IF keyentry = None THEN Len(keys1) - 1 ELSE keyentry[1]
        valentry == value_position(layer.values, mvt_value)
        values1 == IF valentry = None THEN Append(layer.values, mvt_value)
                   ELSE layer.values
        validx == IF valentry = None THEN Len(values1) - 1 ELSE valentry[1]
    IN  [layer |-> [layer EXCEPT !.keys = keys1, !.values = values1],
         mvt_feature |-> [mvt_feature EXCEPT !.tags = @ \o <<keyidx, validx>>]]

\* the match on attr.value in add_feature: FeatureAttrValType to Tile_Value
tile_value(value) ==
    CASE value.t = "String" -> [field |-> "string_value", v |-> value.v]
      [] value.t = "Double" -> [field |-> "double_value", v |-> value.v]
      [] value.t = "Float" -> [field |-> "float_value", v |-> value.v]
      [] value.t = "Int" -> [field |-> "int_value", v |-> value.v]
      [] value.t = "UInt" -> [field |-> "uint_value", v |-> value.v]
      [] value.t = "SInt" -> [field |-> "sint_value", v |-> value.v]
      [] value.t = "Bool" -> [field |-> "bool_value", v |-> value.v]

\* the loop over feature.attributes() in add_feature
RECURSIVE add_attributes(_, _, _)
add_attributes(layer, mvt_feature, attrs) ==
    IF attrs = <<>> THEN [layer |-> layer, mvt_feature |-> mvt_feature]
    ELSE LET r == add_feature_attribute(layer, mvt_feature, attrs[1].key,
                                        tile_value(attrs[1].value))
         IN  add_attributes(r.layer, r.mvt_feature, Tail(attrs))

\* vector_tile::Tile_Feature::new(), with the id of add_feature's first lines
new_feature(fid) ==
    [id |-> fid, tags |-> <<>>, field_type |-> None, geometry |-> <<>>]

\* add_feature that restores the dictionaries when it drops the feature
add_feature_rollback(ext, rev, layer, feature) ==
    LET r == add_attributes(layer, new_feature(feature.fid), feature.attributes)
        geom == feature.geometry.val
    IN  IF feature.geometry.ok /\ ~is_empty(geom)
        THEN LET enc == encode_geom(ext, rev, geom, layer.extent)
             IN  IF enc.panic THEN [layer |-> r.layer, panicked |-> TRUE]
                 ELSE [layer |-> [r.layer EXCEPT !.features =
                          Append(@, [r.mvt_feature EXCEPT
                                       !.field_type = Some(mvt_field_type(geom)),
                                       !.geometry = enc.seq])],
                       panicked |-> FALSE]
        ELSE [layer |-> layer, panicked |-> FALSE]

\* add_feature that appends the feature whatever geometry() returned
add_feature_keep_err(ext, rev, layer, feature) ==
    LET r == add_attributes(layer, new_feature(feature.fid), feature.attributes)
        geom == feature.geometry.val
    IN  IF feature.geometry.ok /\ ~is_empty(geom)
        THEN LET enc == encode_geom(ext, rev, geom, layer.extent)
             IN  IF enc.panic THEN [layer |-> r.layer, panicked |-> TRUE]
                 ELSE [layer |-> [r.layer EXCEPT !.features =
                          Append(@, [r.mvt_feature EXCEPT
                                       !.field_type = Some(mvt_field_type(geom)),
                                       !.geometry = enc.seq])],
                       panicked |-> FALSE]
        ELSE [layer |-> [r.layer EXCEPT !.features = Append(@, r.mvt_feature)],
              panicked |-> FALSE]

\* Tile::add_feature: the layer after the call, and whether the call
\* unwound with the panic of encode_geom
add_feature(ext, rev, layer, feature) ==
    LET r == add_attributes(layer, new_feature(feature.fid), feature.attributes)
        geom == feature.geometry.val
    IN  IF feature.geometry.ok /\ ~is_empty(geom)
        THEN LET enc == encode_geom(ext, rev, geom, layer.extent)
             IN  IF enc.panic THEN [layer |-> r.layer, panicked |-> TRUE]
                 ELSE [layer |-> [r.layer EXCEPT !.features =
                          Append(@, [r.mvt_feature EXCEPT
                                       !.field_type = Some(mvt_field_type(geom)),
                                       !.geometry = enc.seq])],
                       panicked |-> FALSE]
        ELSE [layer |-> r.layer, panicked |-> FALSE]

(***************************************************************************)
(* Inputs of Spec: implementors of the Feature trait.                      *)
(***************************************************************************)
TileSize == 4      \* layer.tile_size of the modelled layer

AttrKeys == {"name", "h"}

AttrValues ==
    {[t |-> "String", v |-> "a"], [t |-> "String", v |-> "b"],
     [t |-> "Double", v |-> "1.0"], [t |-> "Float", v |-> "1.0"],
     [t |-> "Double", v |-> "NaN"]}

FeatureAttrs == [key : AttrKeys, value : AttrValues]

AttrSeqs(n) == UNION {[1..k -> FeatureAttrs] : k \in 0..n}

\* feature.fid() of the features of Spec (SpecRow reads both None and
\* Some from rows)
FidOptions == {Some(7)}

GeometryResults ==
    {Err("geometry error"),
     Ok(Point(Pt(1, 1))),
     Ok(LineString(<<Pt(1, 1)>>)),
     Ok(MultiLineString(<<>>)),
     Ok(GeometryCollection(<<Point(Pt(1, 1))>>))}

Features(n) ==
    [fid : FidOptions, attributes : AttrSeqs(n), geometry : GeometryResults]

RECURSIVE AllAttributes(_)
AllAttributes(cs) ==
    IF cs = <<>> THEN <<>> ELSE cs[1].attributes \o AllAttributes(Tail(cs))

IdleProj == [st |-> "idle"]

IdleRow == [st |-> "idle"]

IdleWrite == [st |-> "idle"]

(***************************************************************************)
(* Spec: Tile::new, Tile::new_layer, then add_feature calls.               *)
(***************************************************************************)
Init ==
    /\ extent = [minx |-> 0, miny |-> 0, maxx |-> 2, maxy |-> 2]
    /\ reverse_y \in BOOLEAN
    /\ mvt_layer = new_layer([name |-> "layer", tile_size |-> TileSize])
    /\ panicked = FALSE
    /\ calls = <<>>
    /\ proj = IdleProj
    /\ rowcall = IdleRow
    /\ wr = IdleWrite

AddFeature ==
    /\ ~panicked
    /\ Len(calls) < MaxCalls
    /\ \E feature \in Features(MaxAttrs - Len(AllAttributes(calls))) :
         LET r == add_feature(extent, reverse_y, mvt_layer, feature)
         IN  /\ mvt_layer' = r.layer
             /\ panicked' = r.panicked
             /\ calls' = Append(calls, feature)
    /\ UNCHANGED <<extent, reverse_y, proj, rowcall, wr>>

Next == AddFeature

Spec == Init /\ [][Next]_vars

(***************************************************************************)
(* Properties of the layer under Spec.                                     *)
(***************************************************************************)
IsPrefix(s, t) == Len(s) <= Len(t) /\ SubSeq(t, 1, Len(s)) = s

\* the entries of s that no earlier entry equals, in order
FirstSeenBy(s, Eq(_, _)) ==
    LET idx == {i \in 1..Len(s) : \A j \in 1..(i - 1) : ~Eq(s[j], s[i])}
    IN  [k \in 1..Cardinality(idx) |->
           s[CHOOSE i \in idx : Cardinality({j \in idx : j <= i}) = k]]

Same(a, b) == a = b

EncounteredKeys(cs) ==
    LET all == AllAttributes(cs) IN [i \in 1..Len(all) |-> all[i].key]

EncounteredValues(cs) ==
    LET all == AllAttributes(cs) IN [i \in 1..Len(all) |-> tile_value(all[i].value)]

\* the calls whose feature add_feature appends
Appended(cs) ==
    SelectSeq(cs, LAMBDA c : /\ c.geometry.ok
                             /\ ~is_empty(c.geometry.val)
                             /\ c.geometry.val.kind # "GeometryCollection")

Dropped(feature) == ~feature.geometry.ok \/ is_empty(feature.geometry.val)

\* C1: keys holds each distinct attribute key once, in the order the keys
\* were encountered over all add_feature calls, and values does the same for
\* the typed values under structural equality (same variant, same payload),
\* so that an entry already present is never added again.
C1_DictionariesFirstSeenUnique ==
    /\ mvt_layer.keys = FirstSeenBy(EncounteredKeys(calls), Same)
    /\ mvt_layer.values = FirstSeenBy(EncounteredValues(calls), Same)

\* C2: every feature of the layer has two tags per attribute, and the j-th
\* pair indexes the key and the value of its j-th attribute in the layer's
\* own dictionaries, also after later calls.
C2_TagsIndexDictionaries ==
    LET kept == Appended(calls)
        features == mvt_layer.features
    IN  /\ Len(features) = Len(kept)
        /\ \A i \in 1..Len(features) :
             LET tags == features[i].tags
                 attrs == kept[i].attributes
             IN  /\ Len(tags) = 2 * Len(attrs)
                 /\ \A j \in 1..Len(attrs) :
                      /\ tags[2 * j - 1] \in 0..(Len(mvt_layer.keys) - 1)
                      /\ tags[2 * j] \in 0..(Len(mvt_layer.values) - 1)
                      /\ mvt_layer.keys[tags[2 * j - 1] + 1] = attrs[j].key
                      /\ mvt_layer.values[tags[2 * j] + 1] = tile_value(attrs[j].value)

\* two features sharing the key "name" with the values "a" and "b"
C2_Witness ==
    /\ mvt_layer.keys = <<"name">>
    /\ mvt_layer.values = <<[field |-> "string_value", v |-> "a"],
                            [field |-> "string_value", v |-> "b"]>>
    /\ Len(mvt_layer.features) = 2
    /\ mvt_layer.features[1].tags = <<0, 0>>
    /\ mvt_layer.features[2].tags = <<0, 1>>

\* C3: every feature of the layer has a non-empty geometry command sequence.
C3_NoEmptyGeometryInLayer ==
    \A i \in 1..Len(mvt_layer.features) : mvt_layer.features[i].geometry # <<>>

\* C4: an add_feature call with a GeometryCollection returns normally and
\* appends nothing, so the calls before and after it keep their features.
C4_GeometryCollectionSkipped ==
    (\E i \in 1..Len(calls) :
        /\ calls[i].geometry.ok
        /\ calls[i].geometry.val.kind = "GeometryCollection")
    => /\ ~panicked
       /\ Len(mvt_layer.features) = Len(Appended(calls))

\* C8: a call whose feature.geometry() is an error returns normally and
\* leaves the feature list as it was; the features of the other calls are
\* all in the list.
C8_GeometryErrorAppendsNothing ==
    [][(calls' # calls /\ ~Last(calls').geometry.ok)
         => /\ mvt_layer'.features = mvt_layer.features
            /\ ~panicked'
            /\ Len(mvt_layer'.features) = Len(Appended(calls'))]_vars

\* a failed geometry() next to a feature that was appended
C8_Witness ==
    /\ ~panicked
    /\ Len(mvt_layer.features) >= 1
    /\ \E i \in 1..Len(calls) : ~calls[i].geometry.ok

\* C10: every call only appends to keys, values and features; a call that
\* drops its feature leaves features alone and leaves in keys and values the
\* interning of all of the feature's attributes, in order.
C10_InternBeforeGeometryNoRollback ==
    [][calls' # calls
         => LET feature == Last(calls')
                ks == [i \in 1..Len(feature.attributes) |-> feature.attributes[i].key]
                vs == [i \in 1..Len(feature.attributes) |->
                         tile_value(feature.attributes[i].value)]
            IN  /\ IsPrefix(mvt_layer.keys, mvt_layer'.keys)
                /\ IsPrefix(mvt_layer.values, mvt_layer'.values)
                /\ IsPrefix(mvt_layer.features, mvt_layer'.features)
                /\ Dropped(feature)
                     => /\ mvt_layer'.features = mvt_layer.features
                        /\ mvt_layer'.keys = FirstSeenBy(mvt_layer.keys \o ks, Same)
                        /\ mvt_layer'.values =
                             FirstSeenBy(mvt_layer.values \o vs, tile_value_eq)]_vars

\* a dropped feature left entries no feature references, and the next
\* feature's tags count them
C10_Witness ==
    /\ Len(calls) = 2
    /\ Dropped(calls[1])
    /\ Len(mvt_layer.features) = 1
    /\ mvt_layer.features[1].tags = <<1, 1>>
    /\ \A i \in 1..Len(mvt_layer.features) :
         \A j \in 1..Len(mvt_layer.features[i].tags) :
            mvt_layer.features[i].tags[j] # 0

(***************************************************************************)
(* SpecProj: screen::Point::from_geom on bounded extents, tile sizes and   *)
(* points, inside and outside the extent.                                  *)
(***************************************************************************)
MaxSpan == 4       \* extent.maxx - extent.minx, extent.maxy - extent.miny
MaxTile == 4       \* tile_size
MaxCoord == 6      \* point coordinates, from -2

ProjExtents ==
    {[minx |-> a, miny |-> b, maxx |-> a + w, maxy |-> b + h] :
        a \in {-1, 0}, b \in {-1, 0}, w \in 1..MaxSpan, h \in 1..MaxSpan}

ProjInputs ==
    [st : {"input"}, extent : ProjExtents, reverse_y : BOOLEAN,
     tile_size : 1..MaxTile,
     point : [x : (-2)..MaxCoord, y : (-2)..MaxCoord],
     screen : {None}]

InitProj ==
    /\ extent = [minx |-> 0, miny |-> 0, maxx |-> 2, maxy |-> 2]
    /\ reverse_y = FALSE
    /\ mvt_layer = new_layer([name |-> "layer", tile_size |-> TileSize])
    /\ panicked = FALSE
    /\ calls = <<>>
    /\ proj \in ProjInputs
    /\ rowcall = IdleRow
    /\ wr = IdleWrite

Project ==
    /\ proj.st = "input"
    /\ proj' = [proj EXCEPT
                  !.st = "done",
                  !.screen = point_from_geom(proj.extent, proj.reverse_y,
                                             proj.tile_size, proj.point)]
    /\ UNCHANGED <<extent, reverse_y, mvt_layer, panicked, calls, rowcall, wr>>

NextProj == Project

SpecProj == InitProj /\ [][NextProj]_vars

\* the exact affine value of a coordinate is Num / Den
ProjNumX == (proj.point.x - proj.extent.minx) * proj.tile_size

ProjDenX == proj.extent.maxx - proj.extent.minx

ProjNumY == (proj.point.y - proj.extent.miny) * proj.tile_size

ProjDenY == proj.extent.maxy - proj.extent.miny

\* r is the integer nearest to n / d (ties away from zero, as f64::round)
IsNearest(r, n, d) ==
    \/ 2 * Abs(r * d - n) < d
    \/ 2 * Abs(r * d - n) = d /\ Abs(r) * d > Abs(n)

\* r is n / d with its fraction dropped: between zero and n / d, less than
\* one unit from n / d
IsTruncation(r, n, d) ==
    /\ n >= 0 => r * d <= n /\ n < (r + 1) * d
    /\ n <= 0 => (r - 1) * d < n /\ n <= r * d

InsideExtent ==
    /\ proj.extent.minx <= proj.point.x /\ proj.point.x <= proj.extent.maxx
    /\ proj.extent.miny <= proj.point.y /\ proj.point.y <= proj.extent.maxy

\* C6 as claimed: without reverse_y the screen point is the affine value
\* rounded to the nearest integer.
C6_ScreenPointIsRounded ==
    (proj.st = "done" /\ ~proj.reverse_y)
    => /\ IsNearest(proj.screen.x, ProjNumX, ProjDenX)
       /\ IsNearest(proj.screen.y, ProjNumY, ProjDenY)

\* C6 amended: the screen point is the affine value truncated toward zero,
\* less than one unit from the exact value (x always, y without reverse_y).
C6_ScreenPointIsTruncated ==
    proj.st = "done"
    => /\ IsTruncation(proj.screen.x, ProjNumX, ProjDenX)
       /\ ~proj.reverse_y => IsTruncation(proj.screen.y, ProjNumY, ProjDenY)

\* a projected point whose exact value lies nearer to the next integer
C6_Witness ==
    /\ proj.st = "done"
    /\ ~proj.reverse_y
    /\ ProjNumX > 0
    /\ 2 * (ProjNumX - proj.screen.x * ProjDenX) > ProjDenX

\* C7 as claimed: with reverse_y the screen y is max(0, tile_size - sy) for
\* the unreversed sy, and never negative.
C7_ReverseYSaturatesAtZero ==
    (proj.st = "done" /\ proj.reverse_y)
    => /\ proj.screen.y >= 0
       /\ proj.screen.y =
            Max(0, proj.tile_size - as_i32(ProjNumY, ProjDenY))

\* C7 amended: with reverse_y the screen y is tile_size - sy, negative when
\* sy exceeds tile_size; for points inside the extent it is in 0..tile_size.
C7_ReverseYSubtracts ==
    (proj.st = "done" /\ proj.reverse_y)
    => /\ IsTruncation(proj.tile_size - proj.screen.y, ProjNumY, ProjDenY)
       /\ InsideExtent => proj.screen.y \in 0..proj.tile_size

\* a point above the extent, reversed to a negative screen y
C7_Witness ==
    /\ proj.st = "done"
    /\ proj.reverse_y
    /\ proj.point.y > proj.extent.maxy
    /\ proj.screen.y < 0

(***************************************************************************)
(* PostGIS row adapter (datasource/postgis_fields.rs).  A row is the       *)
(* sequence of its columns [name, cell]; a cell is [ctype, isnull, raw,   *)
(* geom]: the column type, NULL or not, the value's text, and for a        *)
(* geometry column the geometry its EWKB holds.                            *)
(***************************************************************************)
\* <FeatureAttrValType as FromSql>::accepts
accepts(ty) ==
    ty \in {"VARCHAR", "TEXT", "CHAR_ARRAY", "FLOAT4", "FLOAT8",
            "INT2", "INT4", "INT8", "BOOL"}

\* <FeatureAttrValType as FromSql>::from_sql
from_sql(ty, raw) ==
    CASE ty \in {"VARCHAR", "TEXT", "CHAR_ARRAY"} -> Ok([t |-> "String", v |-> raw])
      [] ty = "FLOAT4" -> Ok([t |-> "Float", v |-> raw])
      [] ty = "FLOAT8" -> Ok([t |-> "Double", v |-> raw])
      [] ty \in {"INT2", "INT4", "INT8"} -> Ok([t |-> "Int", v |-> raw])
      [] ty = "BOOL" -> Ok([t |-> "Bool", v |-> raw])
      [] OTHER -> Err("cannot convert to FeatureAttrValType")

\* Row::get_opt by column name: the index of the first column of that name
column_index(row, name) ==
    LET hits == {i \in 1..Len(row) : row[i].name = name}
    IN  IF hits = {} THEN None ELSE Some(CHOOSE i \in hits : \A j \in hits : i <= j)

\* row.get_opt::<_, FeatureAttrValType>(idx) on the column at position i
get_attr(row, i) ==
    LET cell == row[i].cell
    IN  IF ~accepts(cell.ctype) THEN Err("wrong type")
        ELSE IF cell.isnull THEN Err("was null")
        ELSE from_sql(cell.ctype, cell.raw)

\* row.get_opt::<_, Option<FeatureAttrValType>>(i): NULL reads as Ok(None)
get_opt_attr(row, i) ==
    LET cell == row[i].cell
    IN  IF ~accepts(cell.ctype) THEN Err("wrong type")
        ELSE IF cell.isnull THEN Ok(None)
        ELSE LET r == from_sql(cell.ctype, cell.raw)
             IN  IF r.ok THEN Ok(Some(r.val)) ELSE r

\* row.get_opt::<_, G>(idx) for a geometry type G: None without such a
\* column, else the decoded geometry, which must be of the variant asked for
get_opt_geom(row, idx, variant) ==
    LET i == column_index(row, idx)
    IN  IF i = None THEN None
        ELSE LET cell == row[i[1]].cell
             IN  IF cell.ctype # "GEOMETRY" THEN Some(Err("wrong type"))
                 ELSE IF cell.isnull THEN Some(Err("was null"))
                 ELSE IF cell.geom.kind # variant THEN Some(Err("invalid ewkb"))
                 ELSE Some(Ok(cell.geom))

\* GeometryType::from_geom_field
from_geom_field(row, idx, type_name) ==
    LET variant ==
          CASE type_name = "POINT" -> "Point"
            [] type_name = "MULTIPOINT" -> "MultiPoint"
            [] type_name \in {"LINESTRING", "MULTILINESTRING", "COMPOUNDCURVE"} ->
                 "MultiLineString"
            [] type_name \in {"POLYGON", "MULTIPOLYGON", "CURVEPOLYGON"} ->
                 "MultiPolygon"
            [] type_name = "GEOMETRYCOLLECTION" -> "GeometryCollection"
            [] OTHER -> "unknown"
        field == get_opt_geom(row, idx, variant)
    IN  IF variant = "unknown" THEN Err("Unknown geometry type")
        ELSE IF field = None THEN Err("Column not found")
        ELSE field[1]

\* FeatureRow::fid
fid(layer, row) ==
    IF layer.fid_field = None THEN None
    ELSE LET i == column_index(row, layer.fid_field[1])
             val == IF i = None THEN None ELSE Some(get_attr(row, i[1]))
         IN  IF val # None /\ val[1].ok /\ val[1].val.t = "Int"
             THEN Some(val[1].val.v) ELSE None

\* Option<String>::unwrap_or(&"".to_string())
unwrap_or_empty(opt) == IF opt = None THEN "" ELSE opt[1]

\* the test that lets a column into the attributes
is_attribute_column(layer, col) ==
    /\ col.name # unwrap_or_empty(layer.geometry_field)
    /\ col.name # unwrap_or_empty(layer.fid_field)

\* attributes skipping the geometry field only
attributes_keep_fid(layer, row) ==
    LET RECURSIVE loop(_, _)
        loop(i, attrs) ==
          IF i > Len(row) THEN attrs
          ELSE IF row[i].name # unwrap_or_empty(layer.geometry_field)
               THEN LET val == get_opt_attr(row, i)
                    IN  IF val.ok /\ val.val # None
                        THEN loop(i + 1, Append(attrs, [key |-> row[i].name,
                                                        value |-> val.val[1]]))
                        ELSE loop(i + 1, attrs)
               ELSE loop(i + 1, attrs)
    IN  loop(1, <<>>)

\* FeatureRow::attributes
attributes(layer, row) ==
    LET RECURSIVE loop(_, _)
        loop(i, attrs) ==
          IF i > Len(row) THEN attrs
          ELSE IF is_attribute_column(layer, row[i])
               THEN LET val == get_opt_attr(row, i)
                    IN  IF val.ok /\ val.val # None
                        THEN loop(i + 1, Append(attrs, [key |-> row[i].name,
                                                        value |-> val.val[1]]))
                        ELSE loop(i + 1, attrs)
               ELSE loop(i + 1, attrs)
    IN  loop(1, <<>>)

\* the expect() calls of FeatureRow::geometry
geometry_panics(layer) == layer.geometry_field = None \/ layer.geometry_type = None

\* FeatureRow::geometry, for a layer on which it does not panic
geometry(layer, row) ==
    from_geom_field(row, layer.geometry_field[1], layer.geometry_type[1])

(***************************************************************************)
(* SpecRow: one FeatureRow added to a fresh layer.                         *)
(***************************************************************************)
MaxCols == 3       \* columns of the row

ColNames == {"geom", "id", "name"}

\* the geom of a cell that holds no geometry
NoGeometry == [kind |-> "none", parts |-> <<>>]

Cells ==
    {[ctype |-> "TEXT", isnull |-> FALSE, raw |-> "a", geom |-> NoGeometry],
     [ctype |-> "TEXT", isnull |-> TRUE, raw |-> "", geom |-> NoGeometry],
     [ctype |-> "INT4", isnull |-> FALSE, raw |-> "7", geom |-> NoGeometry],
     [ctype |-> "JSON", isnull |-> FALSE, raw |-> "{}", geom |-> NoGeometry],
     [ctype |-> "GEOMETRY", isnull |-> FALSE, raw |-> "ewkb",
      geom |-> Point(Pt(1, 1))],
     [ctype |-> "GEOMETRY", isnull |-> FALSE, raw |-> "ewkb",
      geom |-> GeometryCollection(<<Point(Pt(1, 1))>>)]}

Columns == [name : ColNames, cell : Cells]

Rows == UNION {[1..k -> Columns] : k \in 0..MaxCols}

RowLayers ==
    [name : {"layer"}, tile_size : {TileSize},
     geometry_field : {None, Some("geom")},
     fid_field : {None, Some("id")},
     geometry_type : {None, Some("POINT"), Some("GEOMETRYCOLLECTION"), Some("TIN")}]

InitRow ==
    /\ extent = [minx |-> 0, miny |-> 0, maxx |-> 2, maxy |-> 2]
    /\ reverse_y = FALSE
    /\ \E layer \in RowLayers, row \in Rows :
         /\ mvt_layer = new_layer(layer)
         /\ rowcall = [st |-> "input", layer |-> layer, row |-> row,
                       fid |-> None, attributes |-> <<>>]
    /\ panicked = FALSE
    /\ calls = <<>>
    /\ proj = IdleProj
    /\ wr = IdleWrite

\* Tile::add_feature on the FeatureRow of rowcall
AddFeatureRow ==
    /\ rowcall.st = "input"
    /\ LET layer == rowcall.layer
           row == rowcall.row
           f == fid(layer, row)
           attrs == attributes(layer, row)
       IN  /\ rowcall' = [rowcall EXCEPT !.st = "done", !.fid = f,
                                         !.attributes = attrs]
           /\ IF geometry_panics(layer)
              THEN /\ mvt_layer' = add_attributes(mvt_layer, new_feature(f), attrs).layer
                   /\ panicked' = TRUE
                   /\ calls' = calls
              ELSE LET feature == [fid |-> f, attributes |-> attrs,
                                   geometry |-> geometry(layer, row)]
                       r == add_feature(extent, reverse_y, mvt_layer, feature)
                   IN  /\ mvt_layer' = r.layer
                       /\ panicked' = r.panicked
                       /\ calls' = Append(calls, feature)
    /\ UNCHANGED <<extent, reverse_y, proj, wr>>

NextRow == AddFeatureRow

SpecRow == InitRow /\ [][NextRow]_vars

\* the attribute a column yields when its value is present and of a
\* supported type: (column name, typed value)
ColumnVariant(ctype) ==
    CASE ctype \in {"VARCHAR", "TEXT", "CHAR_ARRAY"} -> "String"
      [] ctype = "FLOAT4" -> "Float"
      [] ctype = "FLOAT8" -> "Double"
      [] ctype \in {"INT2", "INT4", "INT8"} -> "Int"
      [] ctype = "BOOL" -> "Bool"
      [] OTHER -> "unsupported"

\* the attributes C9 describes: one per column that is neither the geometry
\* field nor the fid field and holds a non-NULL value of a supported type,
\* in column order
ExpectedAttributes(layer, row) ==
    LET idx == {i \in 1..Len(row) :
                  /\ Some(row[i].name) # layer.geometry_field
                  /\ Some(row[i].name) # layer.fid_field
                  /\ ~row[i].cell.isnull
                  /\ ColumnVariant(row[i].cell.ctype) # "unsupported"}
        nth(k) == CHOOSE i \in idx : Cardinality({j \in idx : j <= i}) = k
    IN  [k \in 1..Cardinality(idx) |->
           [key |-> row[nth(k)].name,
            value |-> [t |-> ColumnVariant(row[nth(k)].cell.ctype),
                       v |-> row[nth(k)].cell.raw]]]

\* the row of a POINT layer holds a point in the layer's geometry column
RowHasPoint(layer, row) ==
    /\ layer.geometry_field # None
    /\ layer.geometry_type = Some("POINT")
    /\ \E i \in 1..Len(row) :
         /\ Some(row[i].name) = layer.geometry_field
         /\ \A j \in 1..(i - 1) : row[j].name # row[i].name
         /\ row[i].cell.ctype = "GEOMETRY"
         /\ ~row[i].cell.isnull
         /\ row[i].cell.geom.kind = "Point"

\* C9: attributes() is exactly the expected attributes, in column order; a
\* NULL or undecodable value removes its own attribute only; the layer's
\* keys never hold the geometry field or the fid field, every feature's tags
\* are those of the expected attributes, and a row with a good geometry
\* keeps its feature whatever its other columns hold.
C9_RowAttributes ==
    rowcall.st = "done"
    => LET layer == rowcall.layer
           row == rowcall.row
           expected == ExpectedAttributes(layer, row)
       IN  /\ rowcall.attributes = expected
           /\ \A i \in 1..Len(mvt_layer.keys) :
                /\ Some(mvt_layer.keys[i]) # layer.geometry_field
                /\ Some(mvt_layer.keys[i]) # layer.fid_field
           /\ \A i \in 1..Len(mvt_layer.features) :
                LET tags == mvt_layer.features[i].tags
                IN  /\ Len(tags) = 2 * Len(expected)
                    /\ \A j \in 1..Len(expected) :
                         /\ mvt_layer.keys[tags[2 * j - 1] + 1] = expected[j].key
                         /\ mvt_layer.values[tags[2 * j] + 1] =
                              tile_value(expected[j].value)
           /\ RowHasPoint(layer, row) => Len(mvt_layer.features) = 1

\* a feature kept with its one good attribute, next to the geometry column
\* and a column whose value does not decode
C9_Witness ==
    /\ rowcall.st = "done"
    /\ Len(rowcall.row) = 3
    /\ \E i \in 1..3 :
         /\ rowcall.row[i].name = "name"
         /\ rowcall.row[i].cell.ctype = "JSON"
    /\ Len(mvt_layer.features) = 1
    /\ mvt_layer.features[1].tags = <<0, 0>>
    /\ mvt_layer.keys = <<"name">>

(***************************************************************************)
(* Tile codec: write_to, write_gz_to, binary_tile.  The tile encodes to    *)
(* `total` bytes; the library calls the functions make end as the inputs   *)
(* say: msg is the number of bytes mvt_tile.write_to encoded before it     *)
(* returned (total for Ok, fewer for Err), flush and finish are the        *)
(* Results of os.flush() and gz.finish(), and partial is the number of     *)
(* bytes that had reached the writer when a flush failed.                  *)
(***************************************************************************)
MaxTileBytes == 6  \* encoded size of the tile

\* Tile::write_to: the Result of mvt_tile.write_to is discarded, the Result
\* of os.flush() is unwrapped
write_to(total, msg, flush, partial) ==
    IF flush = "Err"
    THEN [st |-> "panicked", total |-> total, written |-> partial,
          trailer |-> FALSE]
    ELSE [st |-> "returned", total |-> total, written |-> msg, trailer |-> FALSE]

\* Tile::write_gz_to: as write_to through a GzEncoder, and the Result of
\* gz.finish() is discarded
write_gz_to(total, msg, flush, partial, finish) ==
    IF flush = "Err"
    THEN [st |-> "panicked", total |-> total, written |-> partial,
          trailer |-> FALSE]
    ELSE [st |-> "returned", total |-> total, written |-> msg,
          trailer |-> (finish = "Ok")]

\* Tile::binary_tile: write_to into a Vec, whose writes and flush never fail
binary_tile(total, msg) == write_to(total, msg, "Ok", msg)

InitWrite ==
    /\ extent = [minx |-> 0, miny |-> 0, maxx |-> 2, maxy |-> 2]
    /\ reverse_y = FALSE
    /\ mvt_layer = new_layer([name |-> "layer", tile_size |-> TileSize])
    /\ panicked = FALSE
    /\ calls = <<>>
    /\ proj = IdleProj
    /\ rowcall = IdleRow
    /\ wr = IdleWrite

WriteTo ==
    /\ wr.st = "idle"
    /\ \E total \in 1..MaxTileBytes, msg \in 0..MaxTileBytes,
          flush \in {"Ok", "Err"}, partial \in 0..MaxTileBytes :
         /\ msg <= total
         /\ partial <= msg
         /\ wr' = [op |-> "write_to"] @@ write_to(total, msg, flush, partial)
    /\ UNCHANGED <<extent, reverse_y, mvt_layer, panicked, calls, proj, rowcall>>

WriteGzTo ==
    /\ wr.st = "idle"
    /\ \E total \in 1..MaxTileBytes, msg \in 0..MaxTileBytes,
          flush \in {"Ok", "Err"}, partial \in 0..MaxTileBytes,
          finish \in {"Ok", "Err"} :
         /\ msg <= total
         /\ partial <= msg
         /\ wr' = [op |-> "write_gz_to"]
                    @@ write_gz_to(total, msg, flush, partial, finish)
    /\ UNCHANGED <<extent, reverse_y, mvt_layer, panicked, calls, proj, rowcall>>

\* into a Vec only the encoding itself can fail, before any byte is written
BinaryTile ==
    /\ wr.st = "idle"
    /\ \E total \in 1..MaxTileBytes, msg \in 0..MaxTileBytes :
         /\ msg \in {0, total}
         /\ wr' = [op |-> "binary_tile"] @@ binary_tile(total, msg)
    /\ UNCHANGED <<extent, reverse_y, mvt_layer, panicked, calls, proj, rowcall>>

NextWrite == WriteTo \/ WriteGzTo \/ BinaryTile

SpecWrite == InitWrite /\ [][NextWrite]_vars

\* C5: a writer that returns normally has written the whole encoded tile
\* (and, compressed, the gzip trailer); every failure ends the call with a
\* hard failure instead.
C5_WritersAllOrFailure ==
    wr.st = "returned"
    => /\ wr.written = wr.total
       /\ wr.op = "write_gz_to" => wr.trailer

====
